---- MODULE Spec2Model ----
(***************************************************************************)
(* Model of the rsyslog and filebeat process collectors of node_exporter   *)
(* (collector/rsyslog_process.go, collector/filebeat_process.go).          *)
(*                                                                         *)
(* Text is modelled as a sequence of one-character strings, so that the    *)
(* pgrep pattern match, the journalctl/grep/tail/awk pipeline and          *)
(* strconv.ParseFloat are computed character by character.  Floating-point *)
(* values are records [cls, mant, exp]: a finite decimal mant * 10^exp in  *)
(* normal form, or one of the infinities.                                  *)
(***************************************************************************)
EXTENDS Integers, Sequences, FiniteSets, TLC

\* ------------------------------------------------------------------ bounds
\* Number of runs of identical entries the journal holds in SpecExtract.
MaxRuns == 2
\* Capacity of the sink channel handed to Update by the caller.
SinkCap == 2
\* subprocesses of one kind a call may spawn before the model stops counting
MaxProbes == 2

\* ------------------------------------------------------- program constants
\* journalctl -n 100
LogWindow == 100
\* float64: the largest decimal magnitude, 1.797e308
MaxFloatMagnitude == 308
\* float64: decimals below about 4.9e-324 round to zero
MinFloatMagnitude == 0 - 324

\* ------------------------------------------------------------------- text
rsyslogName == <<"r","s","y","s","l","o","g">>
filebeatName == <<"f","i","l","e","b","e","a","t">>
namespace == <<"n","o","d","e">>
upName == <<"u","p">>
openfilesName == <<"o","p","e","n","f","i","l","e","s">>
processNameLabel == <<"p","r","o","c","e","s","s","_","n","a","m","e">>
monitoringKey == <<"m","o","n","i","t","o","r","i","n","g">>
harvesterKey == <<"h","a","r","v","e","s","t","e","r">>
runningKey == <<"r","u","n","n","i","n","g">>

\* s[i..] starts with sep
StartsAt(s, sep, i) ==
    /\ i >= 1
    /\ i + Len(sep) - 1 <= Len(s)
    /\ \A k \in 1..Len(sep) : s[i + k - 1] = sep[k]

\* index of the first occurrence of sep in s, 0 when there is none
IndexOf(s, sep) ==
    LET hits == {i \in 1..Len(s) : StartsAt(s, sep, i)}
    IN  IF hits = {} THEN 0 ELSE CHOOSE i \in hits : \A j \in hits : i <= j

Contains(s, sep) == IndexOf(s, sep) # 0

\* the text after the first occurrence of sep ("" when there is none)
AfterFirst(s, sep) ==
    LET i == IndexOf(s, sep)
    IN  IF i = 0 THEN <<>> ELSE SubSeq(s, i + Len(sep), Len(s))

\* awk -F sep '{print $1}': the text before the first separator
AwkField1(s, sep) ==
    LET i == IndexOf(s, sep)
    IN  IF i = 0 THEN s ELSE SubSeq(s, 1, i - 1)

\* awk -F sep '{print $2}': the text between the first and the second separator
AwkField2(s, sep) == AwkField1(AfterFirst(s, sep), sep)

\* prometheus.BuildFQName: the non-empty parts joined by "_"
BuildFQName(ns, subsystem, name) == ns \o <<"_">> \o subsystem \o <<"_">> \o name

\* ------------------------------------------------------------ float values
Fin(m, e) == [cls |-> "fin", mant |-> m, exp |-> e]
Zero == Fin(0, 0)
One == Fin(1, 0)
PosInf == [cls |-> "+Inf", mant |-> 0, exp |-> 0]
NegInf == [cls |-> "-Inf", mant |-> 0, exp |-> 0]

Digits == {"0","1","2","3","4","5","6","7","8","9"}

DigitVal(c) ==
    CASE c = "0" -> 0 [] c = "1" -> 1 [] c = "2" -> 2 [] c = "3" -> 3
      [] c = "4" -> 4 [] c = "5" -> 5 [] c = "6" -> 6 [] c = "7" -> 7
      [] c = "8" -> 8 [] c = "9" -> 9

RECURSIVE ToInt(_)
ToInt(ds) ==
    IF Len(ds) = 0 THEN 0
    ELSE 10 * ToInt(SubSeq(ds, 1, Len(ds) - 1)) + DigitVal(ds[Len(ds)])

RECURSIVE NumDigits(_)
NumDigits(n) == IF n < 10 THEN 1 ELSE 1 + NumDigits(n \div 10)

\* the normal form of m * 10^e: no trailing zero in the mantissa
RECURSIVE Normalise(_, _)
Normalise(m, e) ==
    IF m = 0 THEN Zero
    ELSE IF m % 10 = 0 THEN Normalise(m \div 10, e + 1)
    ELSE Fin(m, e)

AllDigits(s) == \A i \in 1..Len(s) : s[i] \in Digits

StripSign(s) ==
    IF Len(s) > 0 /\ s[1] \in {"+", "-"} THEN SubSeq(s, 2, Len(s)) ELSE s

IsNegative(s) == Len(s) > 0 /\ s[1] = "-"

\* position of the exponent marker, 0 when there is none
ExpMark(s) ==
    LET hits == {i \in 1..Len(s) : s[i] \in {"e", "E"}}
    IN  IF hits = {} THEN 0 ELSE CHOOSE i \in hits : \A j \in hits : i <= j

Lower(c) ==
    CASE c = "I" -> "i" [] c = "N" -> "n" [] c = "F" -> "f" [] c = "T" -> "t"
      [] c = "Y" -> "y" [] c = "A" -> "a" [] OTHER -> c

LowerAll(s) == [i \in 1..Len(s) |-> Lower(s[i])]

\* strconv.ParseFloat(s, 64): the value and the error it returns.  A token that is
\* not a number gives (0, syntax error); a well-formed decimal too large for a
\* float64 gives (+-Inf, range error); "inf", "infinity" and "nan" are accepted.
\* Hexadecimal floats and digit-separating underscores are outside this model.
ParseFloat(s) ==
    LET body == StripSign(s)
        sign == IF IsNegative(s) THEN 0 - 1 ELSE 1
        k == ExpMark(body)
        mantTxt == IF k = 0 THEN body ELSE SubSeq(body, 1, k - 1)
        expTxt == IF k = 0 THEN <<>> ELSE SubSeq(body, k + 1, Len(body))
        dot == IndexOf(mantTxt, <<".">>)
        intTxt == IF dot = 0 THEN mantTxt ELSE SubSeq(mantTxt, 1, dot - 1)
        fracTxt == IF dot = 0 THEN <<>> ELSE SubSeq(mantTxt, dot + 1, Len(mantTxt))
        expDigits == StripSign(expTxt)
        expSign == IF IsNegative(expTxt) THEN 0 - 1 ELSE 1
        wellFormed ==
            /\ AllDigits(intTxt)
            /\ AllDigits(fracTxt)
            /\ Len(intTxt) + Len(fracTxt) >= 1
            /\ k = 0 \/ (Len(expDigits) >= 1 /\ AllDigits(expDigits))
        norm == Normalise(ToInt(intTxt \o fracTxt),
                          (IF k = 0 THEN 0 ELSE expSign * ToInt(expDigits)) - Len(fracTxt))
        magnitude == NumDigits(norm.mant) + norm.exp - 1
    IN  IF LowerAll(body) \in {<<"i","n","f">>, <<"i","n","f","i","n","i","t","y">>}
        THEN [val |-> IF sign = 1 THEN PosInf ELSE NegInf, err |-> "nil"]
        ELSE IF LowerAll(s) = <<"n","a","n">>
        THEN [val |-> [cls |-> "NaN", mant |-> 0, exp |-> 0], err |-> "nil"]
        ELSE IF ~wellFormed THEN [val |-> Zero, err |-> "syntax"]
        ELSE IF norm.mant = 0 THEN [val |-> Zero, err |-> "nil"]
        ELSE IF magnitude > MaxFloatMagnitude
        THEN [val |-> IF sign = 1 THEN PosInf ELSE NegInf, err |-> "range"]
        ELSE IF magnitude < MinFloatMagnitude THEN [val |-> Zero, err |-> "nil"]
        ELSE [val |-> Fin(sign * norm.mant, norm.exp), err |-> "nil"]

\* --------------------------------------------------------- process table
\* (PgrepRunExact is the variant pgrep -x would give: whole-name match.)
\* exec.Command("pgrep", name).Run(): the error it returns.  pgrep matches its
\* argument as an unanchored pattern against each process's command name, so a
\* pattern made of letters matches every command name that contains it.
PgrepRunExact(tool, table, pattern) ==
    IF tool = "absent" THEN "executable file not found"
    ELSE IF tool = "denied" THEN "permission denied"
    ELSE IF \E p \in table : p = pattern THEN "nil"
    ELSE "exit status 1"

PgrepRun(tool, table, pattern) ==
    IF tool = "absent" THEN "executable file not found"
    ELSE IF tool = "denied" THEN "permission denied"
    ELSE IF \E p \in table : Contains(p, pattern) THEN "nil"
    ELSE "exit status 1"

checkSyslogProcess(tool, table, name) == PgrepRun(tool, table, name) = "nil"

checkProcess(tool, table, name) == PgrepRun(tool, table, name) = "nil"

\* ---------------------------------------------------------------- journal
\* The journal is a sequence of runs [line, n]: n >= 1 consecutive identical
\* entries, oldest run first.  The commands below work on runs.

\* the last room entries of runs
RECURSIVE LastEntries(_, _)
LastEntries(runs, room) ==
    IF Len(runs) = 0 \/ room <= 0 THEN <<>>
    ELSE LET last == runs[Len(runs)]
             take == IF last.n <= room THEN last.n ELSE room
         IN  LastEntries(SubSeq(runs, 1, Len(runs) - 1), room - take)
                \o <<[line |-> last.line, n |-> take]>>

\* journalctl -u filebeat -n 100 --no-tail: --no-tail is documented as undoing
\* --lines=; journalctl builds differ in whether it does when both are given.
Journalctl(runs, undoesLines) ==
    IF undoesLines THEN runs ELSE LastEntries(runs, LogWindow)

GrepMonitoring(runs) == SelectSeq(runs, LAMBDA r : Contains(r.line, monitoringKey))

\* tail -1: the last line, as a sequence of at most one line
Tail1(runs) == IF Len(runs) = 0 THEN <<>> ELSE <<runs[Len(runs)].line>>

AwkHarvester(l) == AwkField2(l, harvesterKey)
AwkRunning(l) == AwkField2(l, runningKey)
AwkColon(l) == AwkField2(l, <<":">>)
AwkComma(l) == AwkField1(l, <<",">>)
\* variant without the last awk stage
AwkBraceMissing(l) == l
AwkBrace(l) == AwkField1(l, <<"}">>)

\* the five awk stages, each printing one line per input line
AwkStages(lines) ==
    [i \in 1..Len(lines) |->
        AwkBrace(AwkComma(AwkColon(AwkRunning(AwkHarvester(lines[i])))))]

GrepNonEmpty(lines) == SelectSeq(lines, LAMBDA l : Len(l) > 0)

\* the shell pipeline of checkFilebeatStatus, stage by stage
Pipeline(runs, undoesLines) ==
    GrepNonEmpty(AwkStages(Tail1(GrepMonitoring(Journalctl(runs, undoesLines)))))

\* go-cmd: the final status of bash -c command.  Error is set when the command
\* cannot be started (or is killed by a signal); a non-zero exit is not an Error.
RunLogCommand(tool, runs, undoesLines) ==
    IF tool = "nostart"
    THEN [Error |-> "exec: bash: executable file not found", Stdout |-> <<>>, Stderr |-> <<>>]
    ELSE IF tool = "unreadable"
    THEN [Error |-> "nil", Stdout |-> <<>>, Stderr |-> <<"No journal files were opened">>]
    ELSE [Error |-> "nil", Stdout |-> Pipeline(runs, undoesLines), Stderr |-> <<>>]

\* variant that stays silent when the command printed nothing at all
checkFilebeatStatusSilent(st) ==
    IF st.Error # "nil"
    THEN [openFiles |-> Zero, printed |-> "Filebeat_error:"]
    ELSE IF Len(st.Stdout) = 0
    THEN IF Len(st.Stderr) # 0
         THEN [openFiles |-> Zero, printed |-> "Filebeat_cmdOutErr:"]
         ELSE [openFiles |-> Zero, printed |-> "none"]
    ELSE LET parsed == ParseFloat(st.Stdout[1])
         IN  [openFiles |-> parsed.val,
              printed |-> IF parsed.err # "nil" THEN "Filebeat_err:" ELSE "none"]

\* checkFilebeatStatus, given the final status of its command: the value it
\* returns and the diagnostic it prints
checkFilebeatStatus(st) ==
    IF st.Error # "nil"
    THEN [openFiles |-> Zero, printed |-> "Filebeat_error:"]
    ELSE IF Len(st.Stdout) = 0
    THEN IF Len(st.Stderr) # 0
         THEN [openFiles |-> Zero, printed |-> "Filebeat_cmdOutErr:"]
         ELSE [openFiles |-> Zero, printed |-> "Filebeat: get monitoring log failed"]
    ELSE LET parsed == ParseFloat(st.Stdout[1])
         IN  [openFiles |-> parsed.val,
              printed |-> IF parsed.err # "nil" THEN "Filebeat_err:" ELSE "none"]

\* ------------------------------------------------------------- log lines
RECURSIVE FormatInt(_)
\* the decimal digits of a natural number, as filebeat writes a counter
FormatInt(n) ==
    LET d == <<"0","1","2","3","4","5","6","7","8","9">>[(n % 10) + 1]
    IN  IF n < 10 THEN <<d>> ELSE FormatInt(n \div 10) \o <<d>>

monPrefix == <<"[","m","o","n","i","t","o","r","i","n","g","]"," ">>

\* filebeat's compact JSON: ..."harvester":{"closed":1,"running":<tok>,"started":1}}
CompactLine(tok) ==
    monPrefix
      \o <<"\"","h","a","r","v","e","s","t","e","r","\"",":","{">>
      \o <<"\"","c","l","o","s","e","d","\"",":","1",",">>
      \o <<"\"","r","u","n","n","i","n","g","\"",":">> \o tok
      \o <<",","\"","s","t","a","r","t","e","d","\"",":","1","}","}">>

\* the same block with the running field last: ..."running":<tok>}}
CompactLastLine(tok) ==
    monPrefix
      \o <<"\"","h","a","r","v","e","s","t","e","r","\"",":","{">>
      \o <<"\"","r","u","n","n","i","n","g","\"",":">> \o tok \o <<"}","}">>

\* the block written with blanks: harvester { running: <tok>, }
SpacedLine(tok) ==
    monPrefix
      \o <<"h","a","r","v","e","s","t","e","r"," ","{"," ">>
      \o <<"r","u","n","n","i","n","g",":"," ">> \o tok \o <<","," ","}">>

\* a monitoring line without a harvester block
NoHarvesterLine ==
    monPrefix \o <<"\"","l","i","b","b","e","a","t","\"",":","{","\"","r","u","n","n","i","n","g","\"",":","3","}">>

\* a log entry that is no monitoring report
OtherLine == <<"H","a","r","v","e","s","t","e","r"," ","s","t","a","r","t","e","d">>

\* ------------------------------------------------------------------ state
Collectors == {"rsyslog", "filebeat"}

\* command names of the processes the host may run
rsyslogdComm == <<"r","s","y","s","l","o","g","d">>
ProcUniverse == {rsyslogdComm, filebeatName}

PgrepTools == {"ok", "absent", "denied"}
LogTools == {"ok", "nostart", "unreadable"}

\* tokens a monitoring line may carry in its running field
tokSeven == FormatInt(7)
tokTwelve == FormatInt(12)
tokText == <<"n","/","a">>
tokHuge == <<"1","e","9","9","9">>

\* the entries the filebeat unit writes to the journal
LogLines ==
    { CompactLine(tokSeven), CompactLastLine(tokTwelve), SpacedLine(tokSeven),
      CompactLine(tokText), CompactLine(tokHuge), NoHarvesterLine, OtherLine }

\* the lengths of a run of identical entries
RunLens == {1, LogWindow - 1, LogWindow}

NoStatus == [Error |-> "none", Stdout |-> <<>>, Stderr |-> <<>>]

VARIABLES
    procTable,          \* command names in the process table
    pgrepTool,          \* whether pgrep can be run
    journal,            \* the filebeat unit's journal, oldest run first
    logTool,            \* whether the log command can start and read the journal
    noTailUndoesLines,  \* the installed journalctl lets --no-tail undo -n
    processName,        \* field processName of each collector instance
    logger,             \* field logger of each collector instance
    enabled,            \* the collectors the scheduler runs in this scrape
    pc,                 \* position of each collector's Update
    alive,              \* local alive of each Update
    upValue,            \* local upValue of each Update
    finalStatus,        \* local finalStatus of checkFilebeatStatus
    openfilesValue,     \* local openfilesValue of the filebeat Update
    retErr,             \* value returned by each Update
    stdout,             \* diagnostics printed during this scrape
    sink,               \* the channel ch, oldest metric first
    received,           \* metrics the consumer has received in this scrape
    prevAlive,          \* what the previous call of each collector found
    prevUp,             \* 'up' value sent by the previous call
    sinkClosed,         \* the channel ch has been closed
    registry,           \* the registrations, in the order they were made
    fatal,              \* startup has ended in the fatal condition
    initsRun,           \* the init functions of this package that have run
    hung,               \* the subprocesses that never terminate once spawned
    pgrepRuns,          \* process-table queries spawned by each call
    logReads            \* log commands spawned by the filebeat call

envVars == <<procTable, pgrepTool, journal, logTool, noTailUndoesLines>>
fieldVars == <<processName, logger>>
callVars == <<enabled, pc, alive, upValue, finalStatus, openfilesValue, retErr, stdout>>
chanVars == <<sink, received>>
histVars == <<prevAlive, prevUp>>
regVars == <<registry, fatal, initsRun>>
countVars == <<pgrepRuns, logReads>>
vars == <<envVars, fieldVars, callVars, chanVars, histVars,
          regVars, hung, countVars, sinkClosed>>

\* NewRsyslogProcessCollector / NewFilebeatProcessCollector
NewRsyslogProcessCollector(lg) == [processName |-> rsyslogName, logger |-> lg]
NewFilebeatProcessCollector(lg) == [processName |-> filebeatName, logger |-> lg]

NewCollector(c, lg) ==
    IF c = "rsyslog" THEN NewRsyslogProcessCollector(lg)
    ELSE NewFilebeatProcessCollector(lg)

\* prometheus.NewDesc
NewDesc(fqName, help, labelNames) ==
    [fqName |-> fqName, help |-> help, labelNames |-> labelNames]

\* prometheus.MustNewConstMetric with GaugeValue
MustNewConstMetric(desc, value, labelValues) ==
    [desc |-> desc, valueType |-> "gauge", value |-> value, labelValues |-> labelValues]

upDesc(c) ==
    NewDesc(BuildFQName(namespace, processName[c], upName),
            IF c = "rsyslog" THEN "Value is 1 if rsyslog process is 'up', 0 otherwise."
            ELSE "Value is 1 if filebeat process is 'up', 0 otherwise.",
            <<processNameLabel>>)

\* variant declaring the label of the 'up' descriptor here too
openfilesDescLabelled ==
    NewDesc(BuildFQName(namespace, processName["filebeat"], openfilesName),
            "Filebeat monitoring log harvester openfiles running.",
            <<processNameLabel>>)

openfilesDesc ==
    NewDesc(BuildFQName(namespace, processName["filebeat"], openfilesName),
            "Filebeat monitoring log harvester openfiles running.", <<>>)

\* a memoizing variant: once a call has seen the process, 'up' stays 1
UpValueMemo(isAlive) ==
    IF isAlive \/ (\E c \in Collectors : prevAlive[c] = "yes") THEN One ELSE Zero

\* variant with the branches exchanged
UpValueInverted(isAlive) == IF isAlive THEN Zero ELSE One

\* upValue := 0.0; if alive { upValue = 1.0 }
UpValue(isAlive) == IF isAlive THEN One ELSE Zero

UpMetric(c) == MustNewConstMetric(upDesc(c), upValue[c], <<processName[c]>>)

OpenfilesMetric == MustNewConstMetric(openfilesDesc, openfilesValue, <<>>)

\* ch <- m: the send is accepted while the channel has room
CanSend(ch) == Len(ch) < SinkCap
\* variant that keeps only the newest metric
EnqueueOverwrite(ch, m) == <<m>>
Enqueue(ch, m) == Append(ch, m)

\* variant that prints nothing
PrintlnNothing(out, text) == out
\* fmt.Println of a diagnostic
Println(out, text) == IF text = "none" THEN out ELSE Append(out, text)

\* ---------------------------------------------------------------- registry
\* collector.go: const defaultEnabled = true
defaultEnabled == TRUE

Registered(reg, name) == \E i \in 1..Len(reg) : reg[i].name = name

\* registerCollector(name, isDefaultEnabled, factory): a name registered before
\* is the fatal startup condition, otherwise the registration is added
registerCollector(reg, r) ==
    IF Registered(reg, r.name)
    THEN [registry |-> reg, fatal |-> TRUE]
    ELSE [registry |-> Append(reg, r), fatal |-> FALSE]

\* rsyslog_process.go, init()
rsyslogRegistration ==
    [name |-> "rsyslog", defaultEnabled |-> defaultEnabled,
     factory |-> "NewRsyslogProcessCollector"]

\* variant registering under the name copied from the other file
filebeatRegistrationCopied ==
    [name |-> "rsyslog", defaultEnabled |-> defaultEnabled,
     factory |-> "NewFilebeatProcessCollector"]

\* filebeat_process.go, init()
filebeatRegistration ==
    [name |-> "filebeat", defaultEnabled |-> defaultEnabled,
     factory |-> "NewFilebeatProcessCollector"]

\* the files of the package whose init() is modelled: the two collectors of
\* this code and two more collector files of the same package
OwnFiles == {"rsyslog_process.go", "filebeat_process.go"}
OtherFiles == {"cpu.go", "other.go"}
InitFiles == OwnFiles \cup OtherFiles

\* the names a collector file may register under
RegNames == {"cpu", "other", "rsyslog", "filebeat"}

OwnRegistration(f) ==
    IF f = "rsyslog_process.go" THEN rsyslogRegistration ELSE filebeatRegistration

\* the call of a registered factory
Factory(name, lg) ==
    IF name = "NewRsyslogProcessCollector" THEN NewRsyslogProcessCollector(lg)
    ELSE NewFilebeatProcessCollector(lg)

\* the registration made under a name
RegistrationOf(reg, name) ==
    reg[CHOOSE i \in 1..Len(reg) : reg[i].name = name]

Ran(f) == \E i \in 1..Len(initsRun) : initsRun[i].file = f

StartupDone == ~fatal /\ \A f \in InitFiles : Ran(f)

Constructed(c) == processName[c] # <<>>

\* what another collector file registers under a name
OtherRegistration(name, en) ==
    [name |-> name, defaultEnabled |-> en, factory |-> "other"]

\* the state of the registry once the init() of every file has run, each file
\* under a name of its own
RECURSIVE RegisterAll(_, _)
RegisterAll(reg, rs) ==
    IF rs = <<>> THEN [registry |-> reg, fatal |-> FALSE]
    ELSE LET first == registerCollector(reg, Head(rs))
         IN  IF first.fatal THEN first ELSE RegisterAll(first.registry, Tail(rs))

RegistryAfterInits ==
    RegisterAll(<<>>, << filebeatRegistration, rsyslogRegistration,
                        OtherRegistration("cpu", TRUE),
                        OtherRegistration("other", FALSE) >>)

NoCall ==
    /\ enabled = {}
    /\ pc = [c \in Collectors |-> "idle"]
    /\ alive = [c \in Collectors |-> FALSE]
    /\ upValue = [c \in Collectors |-> Zero]
    /\ finalStatus = NoStatus
    /\ openfilesValue = Zero
    /\ retErr = [c \in Collectors |-> "none"]
    /\ stdout = <<>>
    /\ pgrepRuns = [c \in Collectors |-> 0]
    /\ logReads = 0

\* the locals of the calls go out of scope
ResetCall ==
    /\ enabled' = {}
    /\ pc' = [c \in Collectors |-> "idle"]
    /\ alive' = [c \in Collectors |-> FALSE]
    /\ upValue' = [c \in Collectors |-> Zero]
    /\ finalStatus' = NoStatus
    /\ openfilesValue' = Zero
    /\ retErr' = [c \in Collectors |-> "none"]
    /\ stdout' = <<>>
    /\ pgrepRuns' = [c \in Collectors |-> 0]
    /\ logReads' = 0

CollectorsInit ==
    /\ processName = [c \in Collectors |-> NewCollector(c, "logger").processName]
    /\ logger = [c \in Collectors |-> NewCollector(c, "logger").logger]
    /\ NoCall
    /\ sink = <<>>
    /\ received = <<>>
    /\ prevAlive = [c \in Collectors |-> "none"]
    /\ prevUp = [c \in Collectors |-> Zero]
    /\ sinkClosed = FALSE

\* startup is over: the init() of every file has run
RegistryInit ==
    /\ registry = RegistryAfterInits.registry
    /\ fatal = RegistryAfterInits.fatal
    /\ initsRun = << [file |-> "filebeat_process.go", name |-> filebeatRegistration.name],
                     [file |-> "rsyslog_process.go", name |-> rsyslogRegistration.name],
                     [file |-> "cpu.go", name |-> "cpu"],
                     [file |-> "other.go", name |-> "other"] >>

Init ==
    /\ procTable = {}
    /\ pgrepTool = "ok"
    /\ journal = <<>>
    /\ logTool = "ok"
    /\ noTailUndoesLines = FALSE
    /\ hung = {}
    /\ RegistryInit
    /\ CollectorsInit

\* ------------------------------------------------------------ environment
ProcStart(p) ==
    /\ p \notin procTable
    /\ procTable' = procTable \cup {p}
    /\ UNCHANGED <<pgrepTool, journal, logTool, noTailUndoesLines>>
    /\ UNCHANGED <<fieldVars, callVars, chanVars, histVars>>
    /\ UNCHANGED <<regVars, hung, countVars, sinkClosed>>

ProcExit(p) ==
    /\ p \in procTable
    /\ procTable' = procTable \ {p}
    /\ UNCHANGED <<pgrepTool, journal, logTool, noTailUndoesLines>>
    /\ UNCHANGED <<fieldVars, callVars, chanVars, histVars>>
    /\ UNCHANGED <<regVars, hung, countVars, sinkClosed>>

SetPgrepTool(t) ==
    /\ t # pgrepTool
    /\ pgrepTool' = t
    /\ UNCHANGED <<procTable, journal, logTool, noTailUndoesLines>>
    /\ UNCHANGED <<fieldVars, callVars, chanVars, histVars>>
    /\ UNCHANGED <<regVars, hung, countVars, sinkClosed>>

SetLogTool(t) ==
    /\ t # logTool
    /\ logTool' = t
    /\ UNCHANGED <<procTable, pgrepTool, journal, noTailUndoesLines>>
    /\ UNCHANGED <<fieldVars, callVars, chanVars, histVars>>
    /\ UNCHANGED <<regVars, hung, countVars, sinkClosed>>

\* the filebeat unit has logged so much of one entry that the journal holds
\* nothing else
JournalTurnover(l) ==
    /\ journal # <<[line |-> l, n |-> LogWindow]>>
    /\ journal' = <<[line |-> l, n |-> LogWindow]>>
    /\ UNCHANGED <<procTable, pgrepTool, logTool, noTailUndoesLines>>
    /\ UNCHANGED <<fieldVars, callVars, chanVars, histVars>>
    /\ UNCHANGED <<regVars, hung, countVars, sinkClosed>>

\* --------------------------------------------------------------- scheduler
\* the scheduler starts one Update per enabled collector, all on the same sink
ScrapeStart(en) ==
    /\ en # {}
    /\ ~fatal
    /\ \A c \in en : Constructed(c)
    /\ \A c \in Collectors : pc[c] = "idle"
    /\ enabled' = en
    /\ pc' = [c \in Collectors |-> IF c \in en THEN "probe" ELSE "idle"]
    /\ UNCHANGED <<alive, upValue, finalStatus, openfilesValue, retErr, stdout>>
    /\ UNCHANGED <<envVars, fieldVars, chanVars, histVars>>
    /\ UNCHANGED <<regVars, hung, countVars, sinkClosed>>

\* the consumer receives the oldest metric of the sink
Receive ==
    /\ Len(sink) > 0
    /\ received' = Append(received, Head(sink))
    /\ sink' = Tail(sink)
    /\ UNCHANGED <<envVars, fieldVars, callVars, histVars>>
    /\ UNCHANGED <<regVars, hung, countVars, sinkClosed>>

ScrapeDone ==
    /\ enabled # {}
    /\ \A c \in enabled : pc[c] = "done"
    /\ sink = <<>>

\* every Update has returned and the sink is drained: the scrape is over, the
\* consumer hands on what it received and the calls' locals are gone
ScrapeEnd ==
    /\ ScrapeDone
    /\ ResetCall
    /\ received' = <<>>
    /\ UNCHANGED <<envVars, fieldVars, sink, histVars>>
    /\ UNCHANGED <<regVars, hung, sinkClosed>>

\* the same, with the caller keeping what the call found and sent, to compare
\* it with the next call on the same instance
SeqEnd ==
    /\ ScrapeDone
    /\ prevAlive' = [c \in Collectors |->
                        IF c \notin enabled THEN prevAlive[c]
                        ELSE IF alive[c] THEN "yes" ELSE "no"]
    /\ prevUp' = [c \in Collectors |-> IF c \in enabled THEN upValue[c] ELSE prevUp[c]]
    /\ ResetCall
    /\ received' = <<>>
    /\ UNCHANGED <<envVars, fieldVars, sink>>
    /\ UNCHANGED <<regVars, hung, sinkClosed>>

\* ------------------------------------------------------------- subprocess
\* the subprocesses the two Update spawn
Subprocesses ==
    { <<"rsyslog", "pgrep">>, <<"filebeat", "pgrep">>, <<"filebeat", "journalctl">> }

\* variant in which the waits share one lock: nobody returns while any
\* subprocess hangs
WaitReturnsShared(p) == hung = {}

\* cmd.Run() and <-statusChan return when the subprocess has exited; no
\* timeout or cancellation bounds the wait
WaitReturns(p) == p \notin hung

\* variant that closes the channel when Update returns
ReturnNilClosing(closed) == TRUE

\* return nil: Update returns without having touched the channel's state
ReturnNil(closed) == closed

\* the statement that follows each statement of rsyslogProcessCollector.Update,
\* whatever the outcome of the statement
RsyslogNext(at, failed) ==
    CASE at = "probe" -> "sendUp"
      [] at = "sendUp" -> "done"

\* variant that repeats a failed log read
FilebeatNextRetry(at, failed) ==
    CASE at = "probe" -> "sendUp"
      [] at = "sendUp" -> "logRead"
      [] at = "logRead" -> IF failed THEN "logRead" ELSE "sendOpenfiles"
      [] at = "sendOpenfiles" -> "done"

\* variant that gathers both values before sending either
FilebeatNextReadFirst(at, failed) ==
    CASE at = "probe" -> "logRead"
      [] at = "logRead" -> "sendUp"
      [] at = "sendUp" -> "sendOpenfiles"
      [] at = "sendOpenfiles" -> "done"

\* the statement that follows each statement of filebeatProcessCollector.Update,
\* whatever the outcome of the statement
FilebeatNext(at, failed) ==
    CASE at = "probe" -> "sendUp"
      [] at = "sendUp" -> "logRead"
      [] at = "logRead" -> "sendOpenfiles"
      [] at = "sendOpenfiles" -> "done"

\* ------------------------------------------------- rsyslogProcessCollector
\* Update: upValue := 0.0; alive := checkSyslogProcess(c.processName)
RsyslogProbe ==
    /\ pc["rsyslog"] = "probe"
    /\ pgrepRuns["rsyslog"] < MaxProbes
    /\ WaitReturns(<<"rsyslog", "pgrep">>)
    /\ LET isAlive == checkSyslogProcess(pgrepTool, procTable, processName["rsyslog"])
       IN  /\ alive' = [alive EXCEPT !["rsyslog"] = isAlive]
           /\ upValue' = [upValue EXCEPT !["rsyslog"] = UpValue(isAlive)]
           /\ pc' = [pc EXCEPT !["rsyslog"] = RsyslogNext("probe", ~isAlive)]
    /\ pgrepRuns' = [pgrepRuns EXCEPT !["rsyslog"] = @ + 1]
    /\ UNCHANGED <<enabled, finalStatus, openfilesValue, retErr, stdout>>
    /\ UNCHANGED <<envVars, fieldVars, chanVars, histVars>>
    /\ UNCHANGED <<regVars, hung, logReads, sinkClosed>>

\* Update: ch <- MustNewConstMetric(upDesc, GaugeValue, upValue, c.processName);
\* return nil
RsyslogSendUp ==
    /\ pc["rsyslog"] = "sendUp"
    /\ IF sinkClosed
       THEN \* a send on a closed channel panics
            /\ pc' = [pc EXCEPT !["rsyslog"] = "panic"]
            /\ UNCHANGED <<sink, retErr, sinkClosed>>
       ELSE /\ CanSend(sink)
            /\ sink' = Enqueue(sink, UpMetric("rsyslog"))
            /\ pc' = [pc EXCEPT !["rsyslog"] = RsyslogNext("sendUp", FALSE)]
            /\ retErr' = [retErr EXCEPT !["rsyslog"] = "nil"]
            /\ sinkClosed' = ReturnNil(sinkClosed)
    /\ UNCHANGED <<enabled, alive, upValue, finalStatus, openfilesValue, stdout>>
    /\ UNCHANGED <<envVars, fieldVars, received, histVars>>
    /\ UNCHANGED <<regVars, hung, countVars>>

\* ------------------------------------------------ filebeatProcessCollector
\* Update: upValue := 0.0; alive := checkProcess(c.processName)
FilebeatProbe ==
    /\ pc["filebeat"] = "probe"
    /\ pgrepRuns["filebeat"] < MaxProbes
    /\ WaitReturns(<<"filebeat", "pgrep">>)
    /\ LET isAlive == checkProcess(pgrepTool, procTable, processName["filebeat"])
       IN  /\ alive' = [alive EXCEPT !["filebeat"] = isAlive]
           /\ upValue' = [upValue EXCEPT !["filebeat"] = UpValue(isAlive)]
           /\ pc' = [pc EXCEPT !["filebeat"] = FilebeatNext("probe", ~isAlive)]
    /\ pgrepRuns' = [pgrepRuns EXCEPT !["filebeat"] = @ + 1]
    /\ UNCHANGED <<enabled, finalStatus, openfilesValue, retErr, stdout>>
    /\ UNCHANGED <<envVars, fieldVars, chanVars, histVars>>
    /\ UNCHANGED <<regVars, hung, logReads, sinkClosed>>

\* Update: ch <- MustNewConstMetric(upDesc, GaugeValue, upValue, c.processName)
FilebeatSendUp ==
    /\ pc["filebeat"] = "sendUp"
    /\ IF sinkClosed
       THEN /\ pc' = [pc EXCEPT !["filebeat"] = "panic"]
            /\ UNCHANGED sink
       ELSE /\ CanSend(sink)
            /\ sink' = Enqueue(sink, UpMetric("filebeat"))
            /\ pc' = [pc EXCEPT !["filebeat"] = FilebeatNext("sendUp", FALSE)]
    /\ UNCHANGED <<enabled, alive, upValue, finalStatus, openfilesValue, retErr, stdout>>
    /\ UNCHANGED <<envVars, fieldVars, received, histVars>>
    /\ UNCHANGED <<regVars, hung, countVars, sinkClosed>>

\* Update: openfilesValue := checkFilebeatStatus()
FilebeatLogRead ==
    /\ pc["filebeat"] = "logRead"
    /\ logReads < MaxProbes
    /\ WaitReturns(<<"filebeat", "journalctl">>)
    /\ LET status == RunLogCommand(logTool, journal, noTailUndoesLines)
           res == checkFilebeatStatus(status)
       IN  /\ finalStatus' = status
           /\ openfilesValue' = res.openFiles
           /\ stdout' = Println(stdout, res.printed)
           /\ pc' = [pc EXCEPT !["filebeat"] =
                        FilebeatNext("logRead", res.printed # "none")]
    /\ logReads' = logReads + 1
    /\ UNCHANGED <<enabled, alive, upValue, retErr>>
    /\ UNCHANGED <<envVars, fieldVars, chanVars, histVars>>
    /\ UNCHANGED <<regVars, hung, pgrepRuns, sinkClosed>>

\* Update: ch <- MustNewConstMetric(openfilesDesc, GaugeValue, openfilesValue);
\* return nil
FilebeatSendOpenfiles ==
    /\ pc["filebeat"] = "sendOpenfiles"
    /\ IF sinkClosed
       THEN /\ pc' = [pc EXCEPT !["filebeat"] = "panic"]
            /\ UNCHANGED <<sink, retErr, sinkClosed>>
       ELSE /\ CanSend(sink)
            /\ sink' = Enqueue(sink, OpenfilesMetric)
            /\ pc' = [pc EXCEPT !["filebeat"] = FilebeatNext("sendOpenfiles", FALSE)]
            /\ retErr' = [retErr EXCEPT !["filebeat"] = "nil"]
            /\ sinkClosed' = ReturnNil(sinkClosed)
    /\ UNCHANGED <<enabled, alive, upValue, finalStatus, openfilesValue, stdout>>
    /\ UNCHANGED <<envVars, fieldVars, received, histVars>>
    /\ UNCHANGED <<regVars, hung, countVars>>

\* ----------------------------------------------------------- specifications
\* the entries the journal turns over to while collectors run
ScrapeLines ==
    {CompactLine(tokSeven), CompactLine(tokText), CompactLine(tokHuge), OtherLine}

Environment ==
    \/ \E p \in ProcUniverse : ProcStart(p)
    \/ \E p \in ProcUniverse : ProcExit(p)
    \/ \E t \in PgrepTools : SetPgrepTool(t)
    \/ \E t \in LogTools : SetLogTool(t)
    \/ \E l \in ScrapeLines : JournalTurnover(l)

Update ==
    \/ RsyslogProbe
    \/ RsyslogSendUp
    \/ FilebeatProbe
    \/ FilebeatSendUp
    \/ FilebeatLogRead
    \/ FilebeatSendOpenfiles

\* the collectors run concurrently, scrape after scrape, while the host changes
Next ==
    \/ Environment
    \/ \E en \in SUBSET Collectors : ScrapeStart(en)
    \/ Update
    \/ Receive
    \/ ScrapeEnd

Spec == Init /\ [][Next]_vars

\* Sequential calls: one collector at a time is called again and again on the same
\* instance while the process table changes, the caller keeping the last result.
NextSeq ==
    \/ \E p \in ProcUniverse : ProcStart(p)
    \/ \E p \in ProcUniverse : ProcExit(p)
    \/ \E t \in PgrepTools : SetPgrepTool(t)
    \/ \E c \in Collectors : ScrapeStart({c})
    \/ Update
    \/ Receive
    \/ SeqEnd

SpecSeq == Init /\ [][NextSeq]_vars

\* Log extraction: the filebeat Update has sent its 'up' metric (filebeat not
\* running), the consumer has received it, and the call stands before
\* checkFilebeatStatus; the journal is whatever the unit wrote until then.
InitExtract ==
    /\ procTable = {}
    /\ pgrepTool = "ok"
    /\ journal = <<>>
    /\ logTool = "ok"
    /\ noTailUndoesLines \in BOOLEAN
    /\ processName = [c \in Collectors |-> NewCollector(c, "logger").processName]
    /\ logger = [c \in Collectors |-> NewCollector(c, "logger").logger]
    /\ enabled = {"filebeat"}
    /\ pc = [c \in Collectors |-> IF c = "filebeat" THEN "logRead" ELSE "idle"]
    /\ alive = [c \in Collectors |-> FALSE]
    /\ upValue = [c \in Collectors |-> Zero]
    /\ finalStatus = NoStatus
    /\ openfilesValue = Zero
    /\ retErr = [c \in Collectors |-> "none"]
    /\ stdout = <<>>
    /\ sink = <<>>
    /\ received = <<UpMetric("filebeat")>>
    /\ prevAlive = [c \in Collectors |-> "none"]
    /\ prevUp = [c \in Collectors |-> Zero]
    /\ sinkClosed = FALSE
    /\ hung = {}
    /\ RegistryInit
    /\ pgrepRuns = [c \in Collectors |-> IF c = "filebeat" THEN 1 ELSE 0]
    /\ logReads = 0

\* the filebeat unit writes n entries l before the log is read
LogAppend(l, n) ==
    /\ pc["filebeat"] = "logRead"
    /\ Len(journal) < MaxRuns
    /\ journal' = Append(journal, [line |-> l, n |-> n])
    /\ UNCHANGED <<procTable, pgrepTool, logTool, noTailUndoesLines>>
    /\ UNCHANGED <<fieldVars, callVars, chanVars, histVars>>
    /\ UNCHANGED <<regVars, hung, countVars, sinkClosed>>

NextExtract ==
    \/ \E l \in LogLines, n \in RunLens : LogAppend(l, n)
    \/ FilebeatLogRead
    \/ FilebeatSendOpenfiles
    \/ Receive

SpecExtract == InitExtract /\ [][NextExtract]_vars

\* Startup and first scrapes: the init() functions of the package run in some
\* order, each registering its collector; once all have run the scheduler
\* constructs the default-enabled collectors of this code through their
\* registered factories and calls them.
InitRegistry ==
    /\ procTable = {filebeatName}
    /\ pgrepTool = "ok"
    /\ journal = <<>>
    /\ logTool = "ok"
    /\ noTailUndoesLines = FALSE
    /\ hung = {}
    /\ registry = <<>>
    /\ fatal = FALSE
    /\ initsRun = <<>>
    /\ processName = [c \in Collectors |-> <<>>]
    /\ logger = [c \in Collectors |-> "none"]
    /\ NoCall
    /\ sink = <<>>
    /\ received = <<>>
    /\ prevAlive = [c \in Collectors |-> "none"]
    /\ prevUp = [c \in Collectors |-> Zero]
    /\ sinkClosed = FALSE

\* init() of rsyslog_process.go or of filebeat_process.go
OwnInit(f) ==
    /\ ~fatal
    /\ ~Ran(f)
    /\ LET r == OwnRegistration(f)
           res == registerCollector(registry, r)
       IN  /\ registry' = res.registry
           /\ fatal' = res.fatal
           /\ initsRun' = Append(initsRun, [file |-> f, name |-> r.name])
    /\ UNCHANGED <<envVars, fieldVars, callVars, chanVars, histVars>>
    /\ UNCHANGED <<hung, countVars, sinkClosed>>

\* init() of another collector file of the package
OtherInit(f, name, en) ==
    /\ ~fatal
    /\ ~Ran(f)
    /\ LET res == registerCollector(registry, OtherRegistration(name, en))
       IN  /\ registry' = res.registry
           /\ fatal' = res.fatal
           /\ initsRun' = Append(initsRun, [file |-> f, name |-> name])
    /\ UNCHANGED <<envVars, fieldVars, callVars, chanVars, histVars>>
    /\ UNCHANGED <<hung, countVars, sinkClosed>>

\* the scheduler constructs an enabled collector through its registered factory
Construct(c) ==
    /\ StartupDone
    /\ Registered(registry, c)
    /\ RegistrationOf(registry, c).defaultEnabled
    /\ ~Constructed(c)
    /\ LET inst == Factory(RegistrationOf(registry, c).factory, "logger")
       IN  /\ processName' = [processName EXCEPT ![c] = inst.processName]
           /\ logger' = [logger EXCEPT ![c] = inst.logger]
    /\ UNCHANGED <<envVars, callVars, chanVars, histVars>>
    /\ UNCHANGED <<regVars, hung, countVars, sinkClosed>>

NextRegistry ==
    \/ \E f \in OwnFiles : OwnInit(f)
    \/ \E f \in OtherFiles, n \in RegNames, en \in BOOLEAN : OtherInit(f, n, en)
    \/ \E c \in Collectors : Construct(c)
    \/ \E en \in SUBSET Collectors : ScrapeStart(en)
    \/ Update
    \/ Receive
    \/ ScrapeEnd

SpecRegistry == InitRegistry /\ [][NextRegistry]_vars

\* Scheduling: as Spec, the filebeat unit not having logged yet, on a host
\* where at most one of the subprocesses never terminates. Every goroutine that can take its next step eventually takes
\* it, and the consumer keeps receiving while the sink holds a metric.
InitFair ==
    /\ procTable = {}
    /\ pgrepTool = "ok"
    /\ journal = <<>>
    /\ logTool = "ok"
    /\ noTailUndoesLines = FALSE
    /\ hung \in {h \in SUBSET Subprocesses : Cardinality(h) <= 1}
    /\ RegistryInit
    /\ CollectorsInit

NextFair ==
    \/ \E p \in ProcUniverse : ProcStart(p)
    \/ \E p \in ProcUniverse : ProcExit(p)
    \/ \E t \in PgrepTools : SetPgrepTool(t)
    \/ \E t \in LogTools : SetLogTool(t)
    \/ \E en \in SUBSET Collectors : ScrapeStart(en)
    \/ Update
    \/ Receive
    \/ ScrapeEnd

Fairness ==
    /\ WF_vars(RsyslogProbe)
    /\ WF_vars(RsyslogSendUp)
    /\ WF_vars(FilebeatProbe)
    /\ WF_vars(FilebeatSendUp)
    /\ WF_vars(FilebeatLogRead)
    /\ WF_vars(FilebeatSendOpenfiles)
    /\ WF_vars(Receive)

SpecFair == InitFair /\ [][NextFair]_vars /\ Fairness

\* A crowded sink: as Spec with the filebeat unit not having logged yet, the
\* channel already holding metrics that other collectors of the scrape have
\* sent and the consumer has not yet received.
otherMetric ==
    MustNewConstMetric(NewDesc(<<"n","o","d","e","_","c","p","u">>, "other", <<>>),
                       Zero, <<>>)

InitOrder ==
    /\ procTable = {}
    /\ pgrepTool = "ok"
    /\ journal = <<>>
    /\ logTool = "ok"
    /\ noTailUndoesLines = FALSE
    /\ hung = {}
    /\ RegistryInit
    /\ processName = [c \in Collectors |-> NewCollector(c, "logger").processName]
    /\ logger = [c \in Collectors |-> NewCollector(c, "logger").logger]
    /\ NoCall
    /\ sink \in {[i \in 1..k |-> otherMetric] : k \in 0..SinkCap}
    /\ received = <<>>
    /\ prevAlive = [c \in Collectors |-> "none"]
    /\ prevUp = [c \in Collectors |-> Zero]
    /\ sinkClosed = FALSE

NextOrder ==
    \/ \E p \in ProcUniverse : ProcStart(p)
    \/ \E p \in ProcUniverse : ProcExit(p)
    \/ \E t \in LogTools : SetLogTool(t)
    \/ \E en \in SUBSET Collectors : ScrapeStart(en)
    \/ Update
    \/ Receive
    \/ ScrapeEnd

SpecOrder == InitOrder /\ [][NextOrder]_vars

\* ------------------------------------------------------------------ claims
\* the name each collector probes for
TargetName(c) == IF c = "rsyslog" THEN rsyslogName ELSE filebeatName

\* t occurs in p as a run of consecutive characters
HasSubstring(p, t) ==
    \E i \in 1..Len(p) : \E j \in i..Len(p) : SubSeq(p, i, j) = t

ProbeStep(c) == pc[c] = "probe" /\ pc'[c] = "sendUp"
SendUpStep(c) == pc[c] = "sendUp" /\ pc'[c] # "sendUp"
Emitted == received \o sink

\* C1: whenever an Update runs its process-table query, upValue becomes exactly 1.0
\* if the query reports a match for the collector's process name and exactly 0.0 in
\* every other outcome (no match, pgrep absent, permission denied); the 'up' gauge
\* then sent carries that value, which is 0.0 or 1.0, and the single label
\* process_name with the probed name as its value.
C1_UpValueFollowsQuery ==
    [][\A c \in Collectors :
          /\ ProbeStep(c) =>
                upValue'[c] = IF PgrepRun(pgrepTool, procTable, TargetName(c)) = "nil"
                              THEN One ELSE Zero
          /\ SendUpStep(c) =>
                LET m == sink'[Len(sink')]
                IN  /\ Len(sink') = Len(sink) + 1
                    /\ m.valueType = "gauge"
                    /\ m.value = upValue[c]
                    /\ m.value \in {Zero, One}
                    /\ m.desc.labelNames = <<processNameLabel>>
                    /\ m.labelValues = <<TargetName(c)>>]_vars

\* C1 witness: in one scrape the consumer has received rsyslog's 'up' as 1.0 and
\* filebeat's 'up' as 0.0
C1_Witness ==
    /\ \E i \in 1..Len(received) :
          received[i].labelValues = <<rsyslogName>> /\ received[i].value = One
    /\ \E i \in 1..Len(received) :
          received[i].labelValues = <<filebeatName>> /\ received[i].value = Zero

\* C2 as stated: a probe whose query can be run reports alive exactly when some
\* process has a command name equal to the target name.
C2_AliveIffExactName ==
    [][\A c \in Collectors :
          ProbeStep(c) /\ pgrepTool = "ok" =>
            (alive'[c] <=> \E p \in procTable : p = TargetName(c))]_vars

\* C2 amended: the probe reports alive exactly when pgrep can be run and some
\* process has a command name that contains the target name (rsyslogd counts for
\* rsyslog).
C2_AliveIffNameContains ==
    [][\A c \in Collectors :
          ProbeStep(c) =>
            (alive'[c] <=> /\ pgrepTool = "ok"
                           /\ \E p \in procTable : HasSubstring(p, TargetName(c)))]_vars

\* C2 witness: rsyslog is reported alive although no process is called rsyslog
C2_Witness ==
    /\ pc["rsyslog"] = "sendUp"
    /\ alive["rsyslog"]
    /\ rsyslogdComm \in procTable
    /\ rsyslogName \notin procTable

LogDiagnostics ==
    {"Filebeat_error:", "Filebeat_cmdOutErr:", "Filebeat: get monitoring log failed",
     "Filebeat_err:"}

AfterLogRead == pc["filebeat"] \in {"sendOpenfiles", "done"}

\* the command failed, printed no token, or printed a token ParseFloat rejects
NoToken(st) == st.Error # "nil" \/ Len(st.Stdout) = 0
TokenRejected(st) == ~NoToken(st) /\ ParseFloat(st.Stdout[1]).err # "nil"
ExtractionFailed(st) == NoToken(st) \/ TokenRejected(st)

\* C3 as stated: Update never returns an error, and every failed probe (of the
\* process table or of the log) is rendered as 0 / 0.0 and accompanied by a printed
\* diagnostic.
C3_FailuresZeroWithDiagnostic ==
    /\ \A c \in Collectors : retErr[c] \in {"none", "nil"}
    /\ \A c \in Collectors : pc[c] = "done" =>
          /\ retErr[c] = "nil"
          /\ ~alive[c] => upValue[c] = Zero /\ Len(stdout) > 0
    /\ AfterLogRead /\ ExtractionFailed(finalStatus) =>
          openfilesValue = Zero /\ \E i \in 1..Len(stdout) : stdout[i] \in LogDiagnostics

\* C3 amended: Update never returns an error.  A failed process-table query is
\* rendered as up = 0.0 and prints nothing.  A failed log extraction prints exactly
\* one diagnostic; it is rendered as 0.0 when the command failed, gave no token or
\* gave a token that is not a number, and as +-Inf when the token is a number out of
\* the float64 range.
C3_NeverAnError ==
    /\ \A c \in Collectors : retErr[c] \in {"none", "nil"}
    /\ \A c \in Collectors : pc[c] = "done" =>
          /\ retErr[c] = "nil"
          /\ ~alive[c] => upValue[c] = Zero
    /\ \A i \in 1..Len(stdout) : stdout[i] \in LogDiagnostics
    /\ ~AfterLogRead => stdout = <<>>
    /\ AfterLogRead =>
          /\ Len(stdout) = IF ExtractionFailed(finalStatus) THEN 1 ELSE 0
          /\ NoToken(finalStatus) => openfilesValue = Zero
          /\ TokenRejected(finalStatus) =>
                IF ParseFloat(finalStatus.Stdout[1]).err = "range"
                THEN openfilesValue \in {PosInf, NegInf}
                ELSE openfilesValue = Zero

\* C3 witness: both Updates have returned nil after a failed process-table query
\* and a log command that could not start
C3_Witness ==
    /\ \A c \in Collectors : pc[c] = "done" /\ retErr[c] = "nil" /\ ~alive[c]
    /\ finalStatus.Error \notin {"nil", "none"}
    /\ stdout = <<"Filebeat_error:">>

\* --- the journal as the claims about the log window read it
IsMonitoringLine(l) ==
    \E i \in 1..(Len(l) - Len(monitoringKey) + 1) :
        SubSeq(l, i, i + Len(monitoringKey) - 1) = monitoringKey

\* number of entries written after run k
RECURSIVE NewerThan(_)
NewerThan(k) == IF k >= Len(journal) THEN 0 ELSE journal[k + 1].n + NewerThan(k + 1)

\* run k has an entry among those journalctl prints
Shown(k) == noTailUndoesLines \/ NewerThan(k) < LogWindow

ShownMonitoring == {k \in 1..Len(journal) : Shown(k) /\ IsMonitoringLine(journal[k].line)}

LastMonitoring ==
    journal[CHOOSE k \in ShownMonitoring : \A j \in ShownMonitoring : j <= k].line

\* the values the monitoring lines of the model report
ReportedValues == {7, 12}

\* line l reports running = v inside its harvester block, in compact JSON
EncodesCompact(l, v) == l \in {CompactLine(FormatInt(v)), CompactLastLine(FormatInt(v))}

\* line l reports running = v inside its harvester block, in any notation
Encodes(l, v) == EncodesCompact(l, v) \/ l = SpacedLine(FormatInt(v))

CommandRan == finalStatus.Error = "nil" /\ finalStatus.Stderr = <<>>

\* C4 as stated: when the last monitoring line of the window encodes
\* harvester { ... running: v ... }, checkFilebeatStatus yields v and the openfiles
\* metric carries v.
C4_RunningValueExtracted ==
    AfterLogRead /\ CommandRan /\ ShownMonitoring # {} =>
        \A v \in ReportedValues :
            Encodes(LastMonitoring, v) =>
                /\ openfilesValue = Fin(v, 0)
                /\ \A i \in 1..Len(Emitted) :
                      Emitted[i].desc.labelNames = <<>> => Emitted[i].value = Fin(v, 0)

\* C4 amended: the same, for a last monitoring line in filebeat's compact JSON,
\* where the decimal value follows the colon of "running" directly and is followed
\* by a comma or a closing brace.
C4_CompactRunningValueExtracted ==
    AfterLogRead /\ CommandRan /\ ShownMonitoring # {} =>
        \A v \in ReportedValues :
            EncodesCompact(LastMonitoring, v) =>
                /\ openfilesValue = Fin(v, 0)
                /\ \A i \in 1..Len(Emitted) :
                      Emitted[i].desc.labelNames = <<>> => Emitted[i].value = Fin(v, 0)

\* C4 witness: the openfiles metric 12 has been received, read from a line that
\* ends its harvester block with the running field, below a newer plain entry
C4_Witness ==
    /\ pc["filebeat"] = "done"
    /\ Len(journal) = 2
    /\ journal[1].line = CompactLastLine(tokTwelve)
    /\ journal[2].line = OtherLine
    /\ \E i \in 1..Len(received) :
          received[i].desc.labelNames = <<>> /\ received[i].value = Fin(12, 0)

\* C5: when the token of the running field is rejected by ParseFloat (syntax or
\* range error), checkFilebeatStatus returns exactly 0.0, prints a diagnostic, and
\* Update returns no error.
C5_RejectedTokenGivesZero ==
    AfterLogRead /\ TokenRejected(finalStatus) =>
        /\ openfilesValue = Zero
        /\ stdout = <<"Filebeat_err:">>
        /\ pc["filebeat"] = "done" => retErr["filebeat"] = "nil"

\* the filebeat metrics that have been sent so far
FilebeatUpEmitted ==
    \E i \in 1..Len(Emitted) :
        /\ Emitted[i].labelValues = <<filebeatName>>
        /\ Emitted[i].value = upValue["filebeat"]

OpenfilesEmitted(v) ==
    \E i \in 1..Len(Emitted) :
        /\ Emitted[i].desc.labelNames = <<>>
        /\ Emitted[i].labelValues = <<>>
        /\ Emitted[i].value = v

\* C6: whenever the log extraction produces no token (the command fails, or prints
\* nothing because the window has no usable monitoring line), checkFilebeatStatus
\* returns exactly 0.0 and prints one diagnostic, and the filebeat Update still
\* sends both of its metrics and returns nil.
C6_NoTokenGivesZero ==
    AfterLogRead /\ NoToken(finalStatus) =>
        /\ openfilesValue = Zero
        /\ Len(stdout) = 1
        /\ stdout[1] \in LogDiagnostics
        /\ FilebeatUpEmitted
        /\ pc["filebeat"] = "done" => OpenfilesEmitted(Zero) /\ retErr["filebeat"] = "nil"

\* C6 witness: the journal could not be read, and the consumer has received both
\* filebeat metrics, openfiles as 0.0
C6_Witness ==
    /\ pc["filebeat"] = "done"
    /\ finalStatus.Error = "nil"
    /\ Len(finalStatus.Stderr) > 0
    /\ stdout = <<"Filebeat_cmdOutErr:">>
    /\ sink = <<>>
    /\ OpenfilesEmitted(Zero)
    /\ FilebeatUpEmitted

\* what C7 expects of a window whose last monitoring line is l
ExpectedOfLine(l) ==
    IF EncodesCompact(l, 7) THEN Fin(7, 0)
    ELSE IF EncodesCompact(l, 12) THEN Fin(12, 0)
    ELSE Zero

\* C7: the openfiles value is decided by the last monitoring line of the window
\* alone: its running value when it carries a valid one, and 0.0 when it lacks a
\* parsable harvester/running field, whatever earlier monitoring lines say.
C7_LastMonitoringLineDecides ==
    AfterLogRead /\ CommandRan =>
        openfilesValue = IF ShownMonitoring = {} THEN Zero
                         ELSE ExpectedOfLine(LastMonitoring)

\* C8: entries older than the 100 most recent ones never affect the openfiles
\* value: the value read from the journal is the value that would be read from its
\* 100 most recent entries alone.
C8_OnlyLastHundredEntries ==
    AfterLogRead /\ CommandRan =>
        openfilesValue =
            checkFilebeatStatus(
                RunLogCommand("ok", LastEntries(journal, LogWindow), noTailUndoesLines)
            ).openFiles

PastProbe(c) == pc[c] \in {"sendUp", "logRead", "sendOpenfiles", "done"}

\* C9: nothing is cached across calls.  In every call the 'up' value is 1.0 or 0.0
\* according to what that call's own query found; when the query's answer differs
\* from the answer the previous call of the same collector got, the value differs
\* from the value the previous call sent; and the fields processName and logger of
\* the instance stay as constructed.
C9_NoCachingAcrossCalls ==
    /\ \A c \in Collectors :
          PastProbe(c) =>
            /\ upValue[c] = IF alive[c] THEN One ELSE Zero
            /\ prevAlive[c] # "none" /\ (prevAlive[c] = "yes") # alive[c] =>
                  upValue[c] # prevUp[c]
    /\ processName = [c \in Collectors |-> TargetName(c)]
    /\ logger = [c \in Collectors |-> "logger"]

\* C9 witness: the previous rsyslog call found the process and sent 1.0, this call
\* does not find it and the consumer has received 0.0
C9_Witness ==
    /\ pc["rsyslog"] = "done"
    /\ prevAlive["rsyslog"] = "yes"
    /\ prevUp["rsyslog"] = One
    /\ ~alive["rsyslog"]
    /\ Len(received) = 1
    /\ received[1].value = Zero

nodeRsyslogUp == <<"n","o","d","e","_","r","s","y","s","l","o","g","_","u","p">>
nodeFilebeatUp == <<"n","o","d","e","_","f","i","l","e","b","e","a","t","_","u","p">>
nodeFilebeatOpenfiles ==
    <<"n","o","d","e","_","f","i","l","e","b","e","a","t","_","o","p","e","n","f","i","l","e","s">>

\* the number of received metrics called name
CountReceived(name) == Cardinality({i \in 1..Len(received) : received[i].desc.fqName = name})

ReceivedValue(name) ==
    received[CHOOSE i \in 1..Len(received) : received[i].desc.fqName = name].value

\* C10: when both Updates have run concurrently on one sink and the consumer has
\* drained it, the consumer holds exactly three metrics: node_rsyslog_up,
\* node_filebeat_up and node_filebeat_openfiles, each once, each with the value its
\* Update computed.
C10_ThreeMetricsEachOnce ==
    ScrapeDone /\ enabled = Collectors =>
        /\ Len(received) = 3
        /\ CountReceived(nodeRsyslogUp) = 1
        /\ CountReceived(nodeFilebeatUp) = 1
        /\ CountReceived(nodeFilebeatOpenfiles) = 1
        /\ ReceivedValue(nodeRsyslogUp) = upValue["rsyslog"]
        /\ ReceivedValue(nodeFilebeatUp) = upValue["filebeat"]
        /\ ReceivedValue(nodeFilebeatOpenfiles) = openfilesValue

\* C10 witness: a scrape of both collectors is over in which rsyslog's metric
\* reached the consumer between the two metrics of filebeat
C10_Witness ==
    /\ ScrapeDone
    /\ enabled = Collectors
    /\ Len(received) = 3
    /\ received[1].desc.fqName = nodeFilebeatUp
    /\ received[2].desc.fqName = nodeRsyslogUp
    /\ received[3].desc.fqName = nodeFilebeatOpenfiles
    /\ received[3].value = Fin(7, 0)

\* C11: no collector ever closes the sink. In every reachable state, after
\* any number of Update calls of either collector and whatever the probes
\* found, the channel is open, and no send of a collector has met a closed
\* channel (a send on a closed channel panics), so a producer can still send.
C11_SinkNeverClosed ==
    /\ ~sinkClosed
    /\ \A c \in Collectors : pc[c] # "panic"

\* both Update have returned, one probe having succeeded and one failed, and
\* the channel is open
C11_Witness ==
    /\ pc["rsyslog"] = "done"
    /\ pc["filebeat"] = "done"
    /\ alive["rsyslog"]
    /\ ~alive["filebeat"]
    /\ retErr = [c \in Collectors |-> "nil"]
    /\ ~sinkClosed

\* --- registration
DuplicateAttempt ==
    \E i, j \in 1..Len(initsRun) : i < j /\ initsRun[i].name = initsRun[j].name

\* a duplicate attempt in which a file other than the two of this code took part
DuplicateWithOther ==
    \E i, j \in 1..Len(initsRun) :
        /\ i < j
        /\ initsRun[i].name = initsRun[j].name
        /\ (initsRun[i].file \in OtherFiles \/ initsRun[j].file \in OtherFiles)

AllIdle == \A c \in Collectors : pc[c] = "idle"

\* C12: registration uniqueness. Startup is fatal exactly when two
\* registrations were attempted under one name; while the names are distinct
\* every registration is in the registry, in order; the registry never holds
\* two registrations of one name; the two registrations of this code
\* ("rsyslog" and "filebeat", each default-enabled, each with its own
\* factory) never collide with each other, so a fatal startup always involves
\* another file; and after a clean startup each of the two collectors can be
\* constructed from its own factory and called on its own.
C12_RegistrationUnique ==
    /\ \A i, j \in 1..Len(registry) : i # j => registry[i].name # registry[j].name
    /\ fatal <=> DuplicateAttempt
    /\ ~fatal => /\ Len(registry) = Len(initsRun)
                 /\ \A i \in 1..Len(registry) : registry[i].name = initsRun[i].name
    /\ fatal => DuplicateWithOther
    /\ \A f \in OwnFiles :
           (Ran(f) /\ ~fatal) =>
               \E i \in 1..Len(registry) :
                   /\ registry[i] = OwnRegistration(f)
                   /\ registry[i].defaultEnabled
                   /\ Factory(registry[i].factory, "logger").processName
                          = TargetName(registry[i].name)
    /\ StartupDone =>
           \A c \in Collectors :
               /\ Constructed(c) \/ ENABLED Construct(c)
               /\ (Constructed(c) /\ AllIdle) => ENABLED ScrapeStart({c})
    /\ \A c \in Collectors :
           Constructed(c) => /\ StartupDone
                             /\ processName[c] = TargetName(c)

\* after a clean startup with four distinct names, the rsyslog collector has
\* been called alone and has returned while the filebeat collector, also
\* constructed, has not been called
C12_Witness ==
    /\ StartupDone
    /\ Len(registry) = 4
    /\ Constructed("rsyslog")
    /\ Constructed("filebeat")
    /\ enabled = {"rsyslog"}
    /\ pc["rsyslog"] = "done"
    /\ pc["filebeat"] = "idle"

\* --- the metrics of one Update
FilebeatNames == {nodeFilebeatUp, nodeFilebeatOpenfiles}

FromFilebeat(m) == m.desc.fqName \in FilebeatNames
NotFromFilebeat(m) == m.desc.fqName \notin FilebeatNames

\* what each collector has put into the sink in this scrape, in order
EmittedBy(c) ==
    IF c = "filebeat" THEN SelectSeq(Emitted, FromFilebeat)
    ELSE SelectSeq(Emitted, NotFromFilebeat)

\* C13: every completed Update has emitted a fixed set of gauges whatever its
\* probes found: rsyslog exactly one, node_rsyslog_up with the label name
\* process_name; filebeat exactly two, node_filebeat_up (label name
\* process_name) and then node_filebeat_openfiles (no label name). Every
\* emitted metric has as many label values as its descriptor has label names,
\* and two emitted metrics of one fully-qualified name have the same label
\* names.
C13_FixedMetricSet ==
    /\ pc["rsyslog"] = "done" =>
           LET ms == EmittedBy("rsyslog")
           IN  /\ Len(ms) = 1
               /\ ms[1].desc.fqName = nodeRsyslogUp
               /\ ms[1].desc.labelNames = <<processNameLabel>>
    /\ pc["filebeat"] = "done" =>
           LET ms == EmittedBy("filebeat")
           IN  /\ Len(ms) = 2
               /\ ms[1].desc.fqName = nodeFilebeatUp
               /\ ms[1].desc.labelNames = <<processNameLabel>>
               /\ ms[2].desc.fqName = nodeFilebeatOpenfiles
               /\ ms[2].desc.labelNames = <<>>
    /\ \A i \in 1..Len(Emitted) :
           /\ Emitted[i].valueType = "gauge"
           /\ Len(Emitted[i].labelValues) = Len(Emitted[i].desc.labelNames)
    /\ \A i, j \in 1..Len(Emitted) :
           Emitted[i].desc.fqName = Emitted[j].desc.fqName
               => Emitted[i].desc.labelNames = Emitted[j].desc.labelNames

\* both Update have completed although every probe failed: pgrep could not be
\* run when either collector queried, and the log command did not start
C13_Witness ==
    /\ pc["rsyslog"] = "done"
    /\ pc["filebeat"] = "done"
    /\ ~alive["rsyslog"]
    /\ ~alive["filebeat"]
    /\ finalStatus.Error # "none"
    /\ Len(EmittedBy("rsyslog")) = 1
    /\ Len(EmittedBy("filebeat")) = 2

\* --- hung subprocesses
HungCollector(c) == \E p \in hung : p[1] = c

\* the call of c waits for a subprocess that never terminates
StuckAt(c) ==
    \/ pc[c] = "probe" /\ <<c, "pgrep">> \in hung
    \/ pc[c] = "logRead" /\ <<c, "journalctl">> \in hung

\* C14: a hung external command stalls only its own collector's worker. A
\* call waiting for a subprocess that never terminates stays where it is,
\* returns nothing and emits no further metric; a concurrently started Update
\* of the other collector on the same sink still emits all its metrics and
\* returns, the consumer draining the sink.
C14_HangStallsOnlyItsCollector ==
    /\ [][\A c \in Collectors :
              StuckAt(c) => /\ pc'[c] = pc[c]
                            /\ retErr'[c] = "none"
                            /\ EmittedBy(c)' = EmittedBy(c)]_vars
    /\ \A c, d \in Collectors :
           (c # d /\ HungCollector(c) /\ pc[d] = "probe")
               ~> (pc[d] = "done" /\ retErr[d] = "nil"
                   /\ Len(EmittedBy(d)) = IF d = "filebeat" THEN 2 ELSE 1)

\* the filebeat call waits for a log command that never terminates, having
\* sent its 'up' metric, while the rsyslog call started with it has returned
\* and its metric has reached the consumer
C14_Witness ==
    /\ enabled = Collectors
    /\ StuckAt("filebeat")
    /\ pc["filebeat"] = "logRead"
    /\ pc["rsyslog"] = "done"
    /\ sink = <<>>
    /\ Len(received) = 2
    /\ \E i \in 1..2 : received[i].desc.fqName = nodeRsyslogUp

\* C15: Update terminates without retries. Where every subprocess terminates
\* and the consumer keeps receiving, every started Update returns; and a call
\* never runs a probe twice, so a returned call has run each of its probes
\* exactly once (one process-table query for rsyslog; one process-table query
\* and one log read for filebeat), whether or not the probe failed.
C15_TerminatesWithoutRetry ==
    /\ [](\A c \in Collectors : pgrepRuns[c] <= 1)
    /\ [](logReads <= 1)
    /\ [](pc["rsyslog"] = "done" => pgrepRuns["rsyslog"] = 1)
    /\ [](pc["filebeat"] = "done" => pgrepRuns["filebeat"] = 1 /\ logReads = 1)
    /\ \A c \in Collectors :
           (hung = {} /\ pc[c] = "probe") ~> (pc[c] = "done" /\ retErr[c] = "nil")

\* both calls have returned after every probe failed once: no process
\* matched either name and the log command printed nothing
C15_Witness ==
    /\ hung = {}
    /\ pc = [c \in Collectors |-> "done"]
    /\ alive = [c \in Collectors |-> FALSE]
    /\ Len(stdout) = 1
    /\ pgrepRuns = [c \in Collectors |-> 1]
    /\ logReads = 1

\* --- the order of the filebeat steps
InEmitted(name) == \E i \in 1..Len(Emitted) : Emitted[i].desc.fqName = name

\* the sink has accepted the 'up' metric of the filebeat call
FilebeatUpAccepted == InEmitted(nodeFilebeatUp)

\* the filebeat call has reached or passed the send of the openfiles metric
OpenfilesOffered ==
    pc["filebeat"] = "sendOpenfiles" \/ InEmitted(nodeFilebeatOpenfiles)

\* C16: the steps of the filebeat Update are strictly ordered. The
\* process-table query has completed before the 'up' metric is sent; the log
\* command is spawned only after the sink has accepted the 'up' metric; the
\* openfiles metric is offered only after the log read. While the call stands
\* at the send of 'up' the log command has not been spawned and openfiles has
\* not been offered, and from a state where the sink does not accept the
\* send, no step moves the call off the send.
C16_FilebeatStepsOrdered ==
    /\ [](pc["filebeat"] = "sendUp" =>
              /\ pgrepRuns["filebeat"] = 1
              /\ logReads = 0
              /\ ~FilebeatUpAccepted
              /\ ~OpenfilesOffered)
    /\ [](logReads >= 1 => pgrepRuns["filebeat"] = 1 /\ FilebeatUpAccepted)
    /\ [](OpenfilesOffered => logReads = 1 /\ FilebeatUpAccepted)
    /\ [][(pc["filebeat"] = "sendUp" /\ ~CanSend(sink)) =>
              /\ pc'["filebeat"] = "sendUp"
              /\ logReads' = 0
              /\ ~OpenfilesOffered']_vars

\* the filebeat call stands at the send of 'up' with its query done, the sink
\* is full, and no log command has been spawned
C16_Witness ==
    /\ pc["filebeat"] = "sendUp"
    /\ pgrepRuns["filebeat"] = 1
    /\ ~CanSend(sink)
    /\ logReads = 0
    /\ finalStatus = NoStatus
====
